---- MODULE Spec2Model ----
(***************************************************************************)
(* Model of the Confluence backend of perceval                             *)
(* (perceval/backends/core/confluence.py): the harvest of the historical   *)
(* versions of the contents of a Confluence server.                        *)
(*                                                                         *)
(* Confluence.fetch_items first drains the summary paginator               *)
(* (ConfluenceClient.contents / _call) into a list, then walks the version *)
(* history of every summary (__fetch_historical_contents), yielding the    *)
(* versions updated at or after from_date.  The generator is modelled as a *)
(* state machine with one action per HTTP request and one per resumption   *)
(* after a yield.  The server is the environment: its response to a        *)
(* request is chosen when the request is first issued and remembered       *)
(* afterwards.  A search lists a content once: the summaries of the pages  *)
(* of one harvest have different ids.                                      *)
(*                                                                         *)
(* The CSV backend (perceval/backends/core/csv.py) is modelled beside it:  *)
(* CSV.fetch_items reads the rows of the file and yields an entry for each *)
(* row that gets a timestamp from its date column.                         *)
(***************************************************************************)
EXTENDS Integers, Sequences, FiniteSets, TLC

(***************************************************************************)
(* Bounds of the model.                                                    *)
(***************************************************************************)
MaxVersions == 2      \* versions the server may hold for one content
MaxPages == 2         \* summary pages of the server in a harvest
MaxPageSize == 2      \* summaries in one summary page
MaxRows == 2          \* rows of the CSV file
MaxTopicPages == 2    \* pages of the list of topics of the Discourse board
MaxStream == 3        \* posts in the stream of a topic
MaxCached == 2        \* items of the cache
PagerMaxPages == 3    \* summary pages of the server when only paginating

(***************************************************************************)
(* Program constants.                                                      *)
(***************************************************************************)
DEFAULT_DATETIME == 0     \* the epoch: "fetch everything"
FIRST_VERSION == 1        \* version = 1

\* The instants of the checkpoint and of the update times: the epoch and an
\* instant after it.  The walk only compares an update time with the
\* checkpoint; two instants give the three outcomes "before", "at" and
\* "after" the checkpoint.
Times == {DEFAULT_DATETIME, DEFAULT_DATETIME + 1}
ContentIds == {"a", "b"}
PagerContentIds == {"a", "b", "c", "d", "e"}

\* Status codes of the HTTP responses of the server: success, two codes the
\* version walk recovers from, and one it does not.
StatusCodes == {200, 401, 404, 500}
ErrorCodes == StatusCodes \ {200}

\* Only "not found" is recovered from.
SkippedCodesOnly404 == {404}

\* Every HTTP error is recovered from.
SkippedCodesAll == {401, 404, 500}

\* if code not in (404, 500): raise e
SkippedCodes == {404, 500}

(***************************************************************************)
(* Server responses.                                                       *)
(***************************************************************************)
\* The 'ancestors' of a content summary: no such field, an empty list, or
\* the list of one ancestor page given by its '_links.webui'.
NoAncestors == [has |-> FALSE, list |-> <<>>]

AncestorLists ==
    {NoAncestors,
     [has |-> TRUE, list |-> <<>>],
     [has |-> TRUE, list |-> <<[webui |-> <<"/display", "p">>]>>]}

\* The content summaries (the elements of 'results' of a search response)
\* of the contents ids, with their '_links.webui' and with 'ancestors' as
\* in ancs.
Summaries(ids, ancs) ==
    {[id |-> c, webui |-> <<"/display", c>>,
      hasAncestors |-> a.has, ancestors |-> a.list] :
        c \in ids, a \in ancs}

SeqsUpTo(S, n) == UNION {[1 .. k -> S] : k \in 0 .. n}

\* The ids of a sequence of summaries.
IdsOf(rs) == {rs[k].id : k \in DOMAIN rs}

\* A response to a summary (search) request: an HTTP error, or a JSON
\* document with 'results' and, maybe, '_links' and '_links.next'.
PageError(s) ==
    [status |-> s, results |-> <<>>, hasLinks |-> FALSE, hasNext |-> FALSE]

PageResponses(ids, ancs) ==
    {[status |-> 200, results |-> rs, hasLinks |-> l[1], hasNext |-> l[2]] :
        rs \in {q \in SeqsUpTo(Summaries(ids, ancs), MaxPageSize) :
                    Cardinality(IdsOf(q)) = Len(q)},
        l \in {<<FALSE, FALSE>>, <<TRUE, FALSE>>, <<TRUE, TRUE>>}}
    \cup
    {PageError(s) : s \in ErrorCodes}

\* A response to a historical content request: an HTTP error, or a JSON
\* document with, maybe, 'version.when' and 'history.latest'.
VersionError(s) ==
    [status |-> s, hasWhen |-> FALSE, when |-> 0,
     hasLatest |-> FALSE, latest |-> FALSE]

VersionResponses ==
    {[status |-> 200, hasWhen |-> TRUE, when |-> w,
      hasLatest |-> TRUE, latest |-> l] : w \in Times, l \in BOOLEAN}
    \cup
    {[status |-> 200, hasWhen |-> TRUE, when |-> w,
      hasLatest |-> FALSE, latest |-> FALSE] : w \in Times}
    \cup
    {[status |-> 200, hasWhen |-> FALSE, when |-> 0,
      hasLatest |-> TRUE, latest |-> FALSE]}
    \cup
    {VersionError(s) : s \in ErrorCodes}

\* The response to a version request that was not issued yet.
Unknown == VersionError(0)

\* The item held by the walk when it is not suspended at a yield.
NoItem == VersionError(0)

NoError == [kind |-> "none", status |-> 0]
HTTPError(s) == [kind |-> "HTTPError", status |-> s]
KeyError == [kind |-> "KeyError", status |-> 0]

(***************************************************************************)
(* The CSV backend: its configuration and the contents of the file.        *)
(***************************************************************************)
\* self.csv_header.split(','), self.date_column and
\* self.date_formats.split(',')
csv_header == <<"name", "date">>
date_column == "date"
date_formats == <<"f1", "f2">>

\* The columns of the header.
Columns == {csv_header[i] : i \in DOMAIN csv_header}

\* The formats of the configuration.
FormatNames == {date_formats[i] : i \in DOMAIN date_formats}

\* The result of dateToTs: None or a timestamp, in seconds since the epoch.
None == [isNone |-> TRUE, value |-> 0]

Timestamp(t) == [isNone |-> FALSE, value |-> t]

\* A value of a row is a text, given by what strptime makes of it in each
\* format: the timestamp of the date it reads, or None when it raises.  A
\* text may be a date in no format, in one format, or in both formats with
\* a different date in each (as 01/02/2020 by day or by month first).
Text == [parse |-> [f \in FormatNames |-> None]]

Date(f, t) ==
    [parse |-> [g \in FormatNames |-> IF g = f THEN Timestamp(t) ELSE None]]

DateOrDate(t, u) ==
    [parse |-> [g \in FormatNames |->
                   IF g = date_formats[1] THEN Timestamp(t) ELSE Timestamp(u)]]

Cells ==
    {Text, Date("f1", 0), Date("f1", 1), Date("f2", 1), DateOrDate(1, 2)}

\* The rows csv.reader can give: a row may be shorter than the header.
Rows == SeqsUpTo(Cells, Len(csv_header))

Files == SeqsUpTo(Rows, MaxRows)

\* An entry: the values of the columns and, maybe, 'timestamp'.
Entry(cols, ts) ==
    [cols |-> cols, hasTimestamp |-> ~ ts.isNone,
     timestamp |-> ts.value]

NoEntry == Entry([c \in Columns |-> Text], None)

(***************************************************************************)
(* The Discourse backend: the responses of the board.  Only well-formed    *)
(* documents and HTTP errors are modelled.                                 *)
(***************************************************************************)
TopicIds == {"t1", "t2"}
ChunkSizes == {1, 2}

\* An element of data['topic_list']['topics'].
Topics(ids) == [id : ids, last_posted_at : Times]

\* A response to a request of latest.json: an HTTP error, or a page of
\* topics with or without 'more_topics_url'.
TopicsError(s) == [status |-> s, topics |-> <<>>, more |-> FALSE]

TopicsResponses(ids) ==
    {[status |-> 200, topics |-> ts, more |-> mo] :
        ts \in {q \in SeqsUpTo(Topics(ids), Cardinality(ids)) :
                    Cardinality({q[k].id : k \in DOMAIN q}) = Len(q)},
        mo \in BOOLEAN}
    \cup
    {TopicsError(s) : s \in {500}}

\* A response to a request of a topic: an HTTP error, or the topic with its
\* 'chunk_size' and its stream of posts, given by the 'updated_at' of each
\* post of the stream.  The document has the ids of all the posts of the
\* stream and the posts of the first chunk_size of them.
TopicError(s) == [status |-> s, id |-> "", chunk_size |-> 1, stream |-> <<>>]

TopicResponses(id) ==
    {[status |-> 200, id |-> id, chunk_size |-> c, stream |-> st] :
        c \in ChunkSizes, st \in SeqsUpTo(Times, MaxStream)}
    \cup
    {TopicError(s) : s \in {500}}

NoTopicsPage == TopicsError(0)
NoTopic == TopicError(0)

\* The post at position k of the stream of topic t, with the category of
\* the topic added to it.
Post(t, k) ==
    [topic |-> t.id, position |-> k, updated_at |-> t.stream[k],
     category_id |-> <<"category", t.id>>]

\* json.dumps and json.loads
dumps(post) == [json |-> post]
loads(raw) == raw.json

NoPost == dumps([topic |-> "", position |-> 0, updated_at |-> 0,
                 category_id |-> <<>>])

CacheError == [kind |-> "CacheError", status |-> 0]

(***************************************************************************)
(* State.                                                                  *)
(***************************************************************************)
VARIABLES
    arg,         \* the from_date argument of fetch()
    add_ancestors, \* self.add_ancestors
    from_date,   \* the checkpoint, after fetch() resolved it
    server,      \* the summary pages the server has served
    hist,        \* hist[c][v]: the response of the server for version v of c
    pc,          \* position of the generator
    cursor,      \* number of the summary page _call requests next
    contents,    \* the list of summaries of fetch_items
    idx,         \* position in 'contents' of the for loop of fetch_items
    version,     \* 'version' of __fetch_historical_contents
    fetching,    \* 'fetching' of __fetch_historical_contents
    hc,          \* the item the walk is suspended on at its yield
    nhcs,        \* 'nhcs' of fetch_items
    error,       \* the exception that reached the caller
    log          \* history of the run: requests issued and items yielded

\* State of the CSV backend (perceval/backends/core/csv.py).
VARIABLES
    rows,        \* the rows of the CSV file
    skip_header, \* self.skip_header
    csv_pc,      \* position of the generator of CSV.fetch_items
    opened,      \* number of times the CSV file was opened
    entries,     \* 'entries' of CSV.fetch_items
    nentries,    \* 'nentries' of CSV.fetch_items
    ret,         \* the entry CSV.fetch_items is suspended on at its yield
    yielded      \* the entries yielded so far

\* State of the Discourse backend (perceval/backends/discourse.py).
VARIABLES
    d_pc,        \* position of the generators of Discourse.fetch
    has_cache,   \* self.cache is a cache instance
    cache_queue, \* the cache queue of the backend
    cache_items, \* the items stored in the cache
    nposts,      \* 'nposts' of fetch and of fetch_from_cache
    page,        \* 'page' of get_topics_id_list, 0 before the first request
    data,        \* 'data' of get_topics_id_list: the page of topics at hand
    topic_i,     \* position in data['topic_list']['topics']
    topic,       \* 'data' of get_posts: the topic at hand
    post_i,      \* position in data['post_stream']['posts']
    rest,        \* the posts of reversed(posts_stream_ids) still to request
    loop,        \* the loop of get_posts that is suspended at its yield
    raw_post     \* 'raw_post' of fetch

config == <<arg, add_ancestors>>

discourseVars == <<d_pc, has_cache, cache_queue, cache_items, nposts, page,
                   data, topic_i, topic, post_i, rest, loop, raw_post>>

csvVars == <<rows, skip_header, csv_pc, opened, entries, nentries, ret,
             yielded>>

vars == <<config, from_date, server, hist, pc, cursor, contents, idx,
          version, fetching, hc, nhcs, error, log, csvVars, discourseVars>>

\* The summaries are taken from the end of the list.
CidReversed == contents[Len(contents) + 1 - idx].id

\* cid = content['id']
Cid == contents[idx].id

(***************************************************************************)
(* Events of the log.                                                      *)
(***************************************************************************)
\* date = from_date.strftime("%Y-%m-%d %H:%M"): the checkpoint without its
\* seconds.  Instants are counted in seconds, dates of the query in minutes.
CqlDate(fd) == fd \div 60

\* The request of a summary page carries the date of the query and, if
\* self.add_ancestors, "?expand=ancestors": the first one in its resource
\* and cql, the later ones in the link the server built from them.
PageEvent(p, r) ==
    [type |-> "page", page |-> p, resp |-> r, date |-> CqlDate(from_date),
     expand |-> add_ancestors]

VersionEvent(i, c, v, r) ==
    [type |-> "version", idx |-> i, id |-> c, version |-> v, resp |-> r]

\* self.origin
Origin == "origin"

\* urijoin(self.origin, content['_links']['webui']), and
\* url_prefix + ancestor['_links']['webui']
urijoin(prefix, webui) == <<prefix>> \o webui

\* The field is set also when the list of ancestors is empty.
AddAncestorsAlways(url_prefix, item, content) ==
    LET ancestors ==
            IF content.hasAncestors
            THEN [k \in DOMAIN content.ancestors |->
                     urijoin(url_prefix, content.ancestors[k].webui)]
            ELSE <<>>
    IN  IF content.hasAncestors
        THEN [item EXCEPT !.hasAncestors = TRUE, !.ancestors = ancestors]
        ELSE item

\* Confluence.add_ancestors
AddAncestors(url_prefix, item, content) ==
    LET ancestors ==
            IF content.hasAncestors /\ content.ancestors # <<>>
            THEN [k \in DOMAIN content.ancestors |->
                     urijoin(url_prefix, content.ancestors[k].webui)]
            ELSE <<>>
    IN  IF ancestors # <<>>
        THEN [item EXCEPT !.hasAncestors = TRUE, !.ancestors = ancestors]
        ELSE item

\* The item yielded for version v of the i-th summary, of content c: the
\* version r with its content_url and, maybe, its ancestors.
EmitEvent(i, c, v, r) ==
    AddAncestors(Origin,
                 [type |-> "emit", idx |-> i, id |-> c, number |-> v,
                  when |-> r.when,
                  content_url |-> urijoin(Origin, contents[i].webui),
                  hasAncestors |-> FALSE, ancestors |-> <<>>],
                 contents[i])

(***************************************************************************)
(* Confluence.metadata_id: str(cid) + '#v' + str(cversion), as a sequence  *)
(* of characters.                                                          *)
(***************************************************************************)
Digits == <<"0", "1", "2", "3", "4", "5", "6", "7", "8", "9">>

RECURSIVE StrOfInt(_)
StrOfInt(n) ==
    IF n < 10 THEN <<Digits[n + 1]>>
    ELSE StrOfInt(n \div 10) \o <<Digits[(n % 10) + 1]>>

\* A content id of the model is one character long.
StrOfId(c) == <<c>>

\* The content id is left out of the identifier.
metadata_idVersionOnly(item) == <<"#", "v">> \o StrOfInt(item.number)

metadata_id(item) ==
    StrOfId(item.id) \o <<"#", "v">> \o StrOfInt(item.number)

(***************************************************************************)
(* Confluence.fetch: the checkpoint.                                       *)
(***************************************************************************)
\* The from_date argument of fetch: absent, or a datetime given by its wall
\* clock time and its offset from UTC, both in seconds.
NoDate == [given |-> FALSE, wall |-> 0, utcoffset |-> 0]

Datetime(w, o) == [given |-> TRUE, wall |-> w, utcoffset |-> o]

UtcOffsets == {0 - 1, 0, 1}

\* The arguments whose instant is one of Times.
Args ==
    {NoDate} \cup
    {Datetime(t + o, o) : t \in Times, o \in UtcOffsets}

\* No checkpoint, or a checkpoint in UTC after the default one.
PlainArgs == {NoDate} \cup {Datetime(t, 0) : t \in Times \ {DEFAULT_DATETIME}}

\* The wall clock time is taken for the instant.
datetime_to_utcKeepsWall(d) == d.wall

\* The instant of a datetime, in seconds of UTC since the epoch.
datetime_to_utc(d) == d.wall - d.utcoffset

\* if not from_date: from_date = DEFAULT_DATETIME
\* from_date = datetime_to_utc(from_date)
Resolve(a) ==
    datetime_to_utc(IF ~ a.given THEN Datetime(DEFAULT_DATETIME, 0) ELSE a)

\* The CSV backend is not in use.
CSVIdle ==
    /\ rows = <<>>
    /\ skip_header = FALSE
    /\ csv_pc = "idle"
    /\ opened = 0
    /\ entries = <<>>
    /\ nentries = 0
    /\ ret = NoEntry
    /\ yielded = <<>>

\* The state of the Discourse backend when its generators are at p.
DiscourseVarsOf(p) ==
    /\ d_pc = p
    /\ cache_queue = <<>>
    /\ cache_items = <<>>
    /\ nposts = 0
    /\ page = 0
    /\ data = NoTopicsPage
    /\ topic_i = 0
    /\ topic = NoTopic
    /\ post_i = 0
    /\ rest = <<>>
    /\ loop = "posts"
    /\ raw_post = NoPost

\* The Discourse backend is not in use.
DiscourseIdle == has_cache = FALSE /\ DiscourseVarsOf("idle")

\* The harvest begins: fetch is called with one of the arguments args by a
\* backend constructed with one of the add_ancestors flags.
Harvest(args, flags) ==
    /\ arg \in args
    /\ add_ancestors \in flags
    /\ from_date = Resolve(arg)
    /\ server = <<>>
    /\ hist = [c \in ContentIds |-> [v \in 1 .. MaxVersions |-> Unknown]]
    /\ pc = "summary"
    /\ cursor = 1
    /\ contents = <<>>
    /\ idx = 0
    /\ version = FIRST_VERSION
    /\ fetching = FALSE
    /\ hc = NoItem
    /\ nhcs = 0
    /\ error = NoError
    /\ log = <<>>

Start(args, flags) == Harvest(args, flags) /\ CSVIdle /\ DiscourseIdle

Init == Start(PlainArgs, {FALSE})

(***************************************************************************)
(* ConfluenceClient._call, driven by                                       *)
(* contents = [content for content in contents] of fetch_items.            *)
(***************************************************************************)
\* Only the presence of '_links' is looked at.
HasNextAnyLinks(j) == j.hasLinks

\* Pagination is available when 'next' link exists
HasNext(j) == j.hasLinks /\ j.hasNext

\* The responses the server can give to the request of summary page p, when
\* it holds at most n pages that list contents of ids with ancestors as in
\* ancs: a content is listed
\* once, a page that links to a next one is not empty, and the last page has
\* no link to a next one.
ServerPage(p, n, ids, ancs) ==
    IF p \in DOMAIN server THEN {server[p]}
    ELSE IF p > n THEN {PageError(404)}
    ELSE {r \in PageResponses(ids, ancs) :
            /\ IdsOf(r.results) \cap IdsOf(contents) = {}
            /\ r.hasLinks /\ r.hasNext => p < n /\ r.results # <<>>}

\* A summary page that fails with 404 or 500 is taken for the end of the
\* summaries.
FetchPageSkipsErrors(n, ids, ancs) ==
    /\ pc = "summary"
    /\ \E r \in ServerPage(cursor, n, ids, ancs) :
        /\ server' = IF cursor \in DOMAIN server THEN server
                              ELSE Append(server, r)
        /\ log' = Append(log, PageEvent(cursor, r))
        /\ IF r.status \in SkippedCodes
           THEN /\ pc' = "content"
                /\ UNCHANGED <<contents, cursor, error>>
           ELSE IF r.status # 200
           THEN /\ pc' = "raised"
                /\ error' = HTTPError(r.status)
                /\ UNCHANGED <<contents, cursor>>
           ELSE /\ contents' = contents \o r.results
                /\ error' = error
                /\ IF HasNext(r)
                   THEN cursor' = cursor + 1 /\ pc' = "summary"
                   ELSE cursor' = cursor /\ pc' = "content"
    /\ UNCHANGED <<config, csvVars, discourseVars, from_date, hist, idx, version, fetching, hc, nhcs>>

\* One iteration of the while loop of _call, and the summaries of its
\* response added to the list.
FetchPage(n, ids, ancs) ==
    /\ pc = "summary"
    /\ \E r \in ServerPage(cursor, n, ids, ancs) :
        /\ server' = IF cursor \in DOMAIN server THEN server
                              ELSE Append(server, r)
        /\ log' = Append(log, PageEvent(cursor, r))
        /\ IF r.status # 200
           THEN /\ pc' = "raised"
                /\ error' = HTTPError(r.status)
                /\ UNCHANGED <<contents, cursor>>
           ELSE /\ contents' = contents \o r.results
                /\ error' = error
                /\ IF HasNext(r)
                   THEN cursor' = cursor + 1 /\ pc' = "summary"
                   ELSE cursor' = cursor /\ pc' = "content"
    /\ UNCHANGED <<config, csvVars, discourseVars, from_date, hist, idx, version, fetching, hc, nhcs>>

FetchSummaryPage == FetchPage(MaxPages, ContentIds, {NoAncestors})

(***************************************************************************)
(* Confluence.fetch_items: for content in contents                         *)
(***************************************************************************)
\* The walk of the summaries at hand begins while summary pages are still
\* to be requested.
StartWalkEarly ==
    /\ pc \in {"summary", "content"}
    /\ idx < Len(contents)
    /\ idx' = idx + 1
    /\ fetching' = TRUE
    /\ version' = FIRST_VERSION
    /\ pc' = "walk"
    /\ UNCHANGED <<config, csvVars, discourseVars, from_date, server, hist, cursor, contents, hc, nhcs,
                   error, log>>

\* The version counter is shared by the walks: a walk goes on from the
\* version the walk before it stopped at.
StartWalkKeepsVersion ==
    /\ pc = "content"
    /\ idx < Len(contents)
    /\ idx' = idx + 1
    /\ fetching' = TRUE
    /\ version' = version
    /\ pc' = "walk"
    /\ UNCHANGED <<config, csvVars, discourseVars, from_date, server, hist, cursor, contents,
                   hc, nhcs, error, log>>

StartWalk ==
    /\ pc = "content"
    /\ idx < Len(contents)
    /\ idx' = idx + 1
    /\ fetching' = TRUE
    /\ version' = FIRST_VERSION
    /\ pc' = "walk"
    /\ UNCHANGED <<config, csvVars, discourseVars, from_date, server, hist, cursor, contents, hc, nhcs,
                   error, log>>

\* The end of the list of summaries is missed by one.
FinishOffByOne ==
    /\ pc = "content"
    /\ idx > Len(contents)
    /\ pc' = "done"
    /\ UNCHANGED <<config, csvVars, discourseVars, from_date, server, hist, cursor, contents,
                   idx, version, fetching, hc, nhcs, error, log>>

Finish ==
    /\ pc = "content"
    /\ idx >= Len(contents)
    /\ pc' = "done"
    /\ UNCHANGED <<config, csvVars, discourseVars, from_date, server, hist, cursor, contents, idx, version,
                   fetching, hc, nhcs, error, log>>

(***************************************************************************)
(* Confluence.__fetch_historical_contents                                  *)
(***************************************************************************)
\* The responses the server can give to the request of version v of c.
ServerVersion(c, v) ==
    IF v > MaxVersions THEN {VersionError(404)}
    ELSE IF hist[c][v] # Unknown THEN {hist[c][v]}
    ELSE VersionResponses

\* The filter lets every version through.
QualifiesAlways(when, fd) == TRUE

\* The filter compares with the checkpoint truncated to its minute.
QualifiesMinute(when, fd) == when >= 60 * (fd \div 60)

\* The filter leaves out the versions updated at the checkpoint.
QualifiesStrict(when, fd) == when > fd

\* if when >= from_date
Qualifies(when, fd) == when >= fd

\* The walk also stops at a version older than the checkpoint.
StillFetchingIfRecent(item) == ~ item.latest /\ item.when >= from_date

\* The walk does not stop at the version flagged latest.
StillFetchingAlways(item) == TRUE

\* fetching = not hc['history']['latest']
StillFetching(item) == ~ item.latest

\* A version is stepped over.
NextVersionSkips(v) == v + 2

\* version += 1
NextVersion(v) == v + 1

\* A version without 'history.latest' is taken for the latest one: the
\* walk ends as at an unreachable version.
AdvanceMissingLatestEndsWalk(item) ==
    IF ~ item.hasLatest
    THEN /\ pc' = "content"
         /\ error' = error
         /\ UNCHANGED <<fetching, version>>
    ELSE /\ fetching' = StillFetching(item)
         /\ version' = NextVersion(version)
         /\ pc' = IF StillFetching(item) THEN "walk" ELSE "content"
         /\ error' = error

\* The end of an iteration of the while loop, after the filter.
Advance(item) ==
    IF ~ item.hasLatest
    THEN /\ pc' = "raised"
         /\ error' = KeyError
         /\ UNCHANGED <<fetching, version>>
    ELSE /\ fetching' = StillFetching(item)
         /\ version' = NextVersion(version)
         /\ pc' = IF StillFetching(item) THEN "walk" ELSE "content"
         /\ error' = error

\* A recovered error skips the version instead of ending the walk.
HTTPErrorHandlerContinues(code) ==
    IF code \notin SkippedCodes
    THEN /\ pc' = "raised"
         /\ error' = HTTPError(code)
         /\ UNCHANGED <<fetching, version>>
    ELSE /\ pc' = "walk"
         /\ error' = error
         /\ version' = version + 1
         /\ UNCHANGED fetching

\* except requests.exceptions.HTTPError as e
HTTPErrorHandler(code) ==
    IF code \notin SkippedCodes
    THEN /\ pc' = "raised"
         /\ error' = HTTPError(code)
         /\ UNCHANGED <<fetching, version>>
    ELSE /\ pc' = "content"
         /\ error' = error
         /\ UNCHANGED <<fetching, version>>

\* 'history.latest' is read before the filter: a version without it is
\* never yielded.
FetchVersionReadsLatestFirst ==
    /\ pc = "walk"
    /\ fetching
    /\ \E r \in ServerVersion(Cid, version) :
        LET req == VersionEvent(idx, Cid, version, r) IN
        /\ hist' = IF version <= MaxVersions
                   THEN [hist EXCEPT ![Cid][version] = r]
                   ELSE hist
        /\ IF r.status # 200
           THEN /\ log' = Append(log, req)
                /\ hc' = hc
                /\ HTTPErrorHandler(r.status)
           ELSE IF ~ r.hasWhen
           THEN /\ log' = Append(log, req)
                /\ hc' = hc
                /\ pc' = "raised"
                /\ error' = KeyError
                /\ UNCHANGED <<fetching, version>>
           ELSE IF ~ r.hasLatest
           THEN /\ log' = Append(log, req)
                /\ hc' = hc
                /\ pc' = "raised"
                /\ error' = KeyError
                /\ UNCHANGED <<fetching, version>>
           ELSE IF Qualifies(r.when, from_date)
           THEN /\ log' = log \o <<req, EmitEvent(idx, Cid, version, r)>>
                /\ hc' = r
                /\ pc' = "yield"
                /\ UNCHANGED <<fetching, version, error>>
           ELSE /\ log' = Append(log, req)
                /\ hc' = hc
                /\ Advance(r)
    /\ UNCHANGED <<config, csvVars, discourseVars, from_date, server, cursor, contents, idx, nhcs>>

FetchVersion ==
    /\ pc = "walk"
    /\ fetching
    /\ \E r \in ServerVersion(Cid, version) :
        LET req == VersionEvent(idx, Cid, version, r) IN
        /\ hist' = IF version <= MaxVersions
                   THEN [hist EXCEPT ![Cid][version] = r]
                   ELSE hist
        /\ IF r.status # 200
           THEN /\ log' = Append(log, req)
                /\ hc' = hc
                /\ HTTPErrorHandler(r.status)
           ELSE IF ~ r.hasWhen
           THEN /\ log' = Append(log, req)
                /\ hc' = hc
                /\ pc' = "raised"
                /\ error' = KeyError
                /\ UNCHANGED <<fetching, version>>
           ELSE IF Qualifies(r.when, from_date)
           THEN /\ log' = log \o <<req, EmitEvent(idx, Cid, version, r)>>
                /\ hc' = r
                /\ pc' = "yield"
                /\ UNCHANGED <<fetching, version, error>>
           ELSE /\ log' = Append(log, req)
                /\ hc' = hc
                /\ Advance(r)
    /\ UNCHANGED <<config, csvVars, discourseVars, from_date, server, cursor, contents, idx, nhcs>>

\* The caller asks for the next item: fetch_items counts the item it
\* yielded and the walk goes on after its yield.
Resume ==
    /\ pc = "yield"
    /\ nhcs' = nhcs + 1
    /\ hc' = NoItem
    /\ Advance(hc)
    /\ UNCHANGED <<config, csvVars, discourseVars, from_date, server, hist, cursor, contents, idx, log>>

Next ==
    \/ FetchSummaryPage
    \/ StartWalk
    \/ FetchVersion
    \/ Resume
    \/ Finish

Spec == Init /\ [][Next]_vars

\* The caller drains the generator: as long as the harvest has a step to
\* take, a step is taken.  A request gets its response; the server is not
\* waited for forever.
SpecFair == Spec /\ WF_vars(Next)

(***************************************************************************)
(* The harvest, called with any from_date argument.                        *)
(***************************************************************************)
InitFetch == Start(Args, {FALSE})

SpecFetch == InitFetch /\ [][Next]_vars

(***************************************************************************)
(* The harvest of a backend constructed with or without add_ancestors,     *)
(* from a server whose summaries may carry ancestors.  The checkpoint has  *)
(* no part in the ancestors: fetch is called without a from_date.          *)
(***************************************************************************)
InitAncestors == Start({NoDate}, BOOLEAN)

AncestorsFetchSummaryPage == FetchPage(MaxPages, ContentIds, AncestorLists)

NextAncestors ==
    \/ AncestorsFetchSummaryPage
    \/ StartWalk
    \/ FetchVersion
    \/ Resume
    \/ Finish

SpecAncestors == InitAncestors /\ [][NextAncestors]_vars

(***************************************************************************)
(* A second call of fetch with the same checkpoint, once the first harvest *)
(* has ended: the locals of the generators are created anew, and the       *)
(* server answers a request it has answered before in the same way.        *)
(***************************************************************************)
FetchEvent == [type |-> "fetch"]

\* The position in the list of summaries survives the first harvest.
RerunKeepsPosition ==
    /\ pc \in {"done", "raised"}
    /\ \A k \in DOMAIN log : log[k] # FetchEvent
    /\ pc' = "summary"
    /\ cursor' = 1
    /\ contents' = <<>>
    /\ idx' = idx
    /\ version' = FIRST_VERSION
    /\ fetching' = FALSE
    /\ hc' = NoItem
    /\ nhcs' = 0
    /\ error' = NoError
    /\ log' = Append(log, FetchEvent)
    /\ UNCHANGED <<config, csvVars, discourseVars, from_date, server, hist>>

Rerun ==
    /\ pc \in {"done", "raised"}
    /\ \A k \in DOMAIN log : log[k] # FetchEvent
    /\ pc' = "summary"
    /\ cursor' = 1
    /\ contents' = <<>>
    /\ idx' = 0
    /\ version' = FIRST_VERSION
    /\ fetching' = FALSE
    /\ hc' = NoItem
    /\ nhcs' = 0
    /\ error' = NoError
    /\ log' = Append(log, FetchEvent)
    /\ UNCHANGED <<config, csvVars, discourseVars, from_date, server, hist>>

NextRerun ==
    \/ Next
    \/ Rerun

SpecRerun == Init /\ [][NextRerun]_vars

(***************************************************************************)
(* The summary paginator alone: list(client.contents(from_date)).          *)
(***************************************************************************)
InitPager == Start(PlainArgs, {FALSE})

PagerFetchSummaryPage ==
    FetchPage(PagerMaxPages, PagerContentIds, {NoAncestors})

NextPager == PagerFetchSummaryPage

SpecPager == InitPager /\ [][NextPager]_vars

(***************************************************************************)
(* CSV.fetch_items and CSVClient.get_entries.                              *)
(***************************************************************************)
\* datetime.datetime.strptime(date, head).timestamp(), None standing for
\* the exception of strptime.
strptime(date, format) == date.parse[format]

\* datetime.datetime.strptime(date, head) does not raise.
Parses(date, format) == ~ strptime(date, format).isNone

\* CSV.dateToTs: the timestamp of the date in the first format that parses
\* it, None when no format does.
RECURSIVE dateToTs(_, _)
dateToTs(date, formats) ==
    IF formats = <<>> THEN None
    ELSE IF Parses(date, Head(formats)) THEN strptime(date, Head(formats))
    ELSE dateToTs(date, Tail(formats))

\* if timestamp: neither None nor zero.
Truthy(timestamp) == ~ timestamp.isNone /\ timestamp.value # 0

\* The last position of column c in the header.
ColumnIndex(c) ==
    CHOOSE i \in DOMAIN csv_header :
        /\ csv_header[i] = c
        /\ \A j \in DOMAIN csv_header : csv_header[j] = c => j <= i

\* The body of the for loop over the entries, for an item with a value for
\* every column: ret[column] = value, and 'timestamp' when the value of the
\* date column gives one.
BuildEntry(item) ==
    LET timestamp ==
            IF date_column \in Columns
            THEN dateToTs(item[ColumnIndex(date_column)], date_formats)
            ELSE None
    IN  Entry([c \in Columns |-> item[ColumnIndex(c)]],
              IF Truthy(timestamp) THEN timestamp ELSE None)

\* The first row is kept also when skip_header.
parse_entriesKeepsHeader(csv_content) == csv_content

\* CSVClient.parse_entries: the rows of the file, without the first one if
\* skip_header.
parse_entries(csv_content) ==
    IF skip_header /\ csv_content # <<>> THEN Tail(csv_content)
    ELSE csv_content

\* CSV.fetch is called on a file.
InitCSV ==
    /\ Harvest({NoDate}, {FALSE})
    /\ DiscourseIdle
    /\ rows \in Files
    /\ skip_header \in BOOLEAN
    /\ csv_pc = "start"
    /\ opened = 0
    /\ entries = <<>>
    /\ nentries = 0
    /\ ret = NoEntry
    /\ yielded = <<>>

\* The header row is read before the others: a file without rows raises
\* when skip_header.
GetEntriesNeedsHeader ==
    /\ csv_pc = "start"
    /\ opened' = opened + 1
    /\ entries' = parse_entries(rows)
    /\ csv_pc' = IF skip_header /\ rows = <<>> THEN "raised" ELSE "loop"
    /\ UNCHANGED <<rows, skip_header, nentries, ret, yielded>>
    /\ UNCHANGED <<config, discourseVars, from_date, server, hist, pc, cursor, contents, idx,
                   version, fetching, hc, nhcs, error, log>>

\* entries = self.client.get_entries(): the file is opened and read whole.
GetEntries ==
    /\ csv_pc = "start"
    /\ opened' = opened + 1
    /\ entries' = parse_entries(rows)
    /\ csv_pc' = "loop"
    /\ UNCHANGED <<rows, skip_header, nentries, ret, yielded>>
    /\ UNCHANGED <<config, discourseVars, from_date, server, hist, pc, cursor, contents, idx,
                   version, fetching, hc, nhcs, error, log>>

\* One iteration of the for loop over the entries, up to its yield or to
\* its end: item[i] raises IndexError for an item with less values than
\* the header has columns.
NextEntry ==
    /\ csv_pc = "loop"
    /\ nentries < Len(entries)
    /\ LET item == entries[nentries + 1] IN
        IF Len(item) < Len(csv_header)
        THEN /\ csv_pc' = "raised"
             /\ UNCHANGED <<nentries, ret, yielded>>
        ELSE IF BuildEntry(item).hasTimestamp
        THEN /\ csv_pc' = "yield"
             /\ ret' = BuildEntry(item)
             /\ yielded' = Append(yielded, BuildEntry(item))
             /\ UNCHANGED nentries
        ELSE /\ nentries' = nentries + 1
             /\ UNCHANGED <<csv_pc, ret, yielded>>
    /\ UNCHANGED <<rows, skip_header, opened, entries>>
    /\ UNCHANGED <<config, discourseVars, from_date, server, hist, pc, cursor, contents, idx,
                   version, fetching, hc, nhcs, error, log>>

\* The caller asks for the next entry: nentries += 1 after the yield.
ResumeEntry ==
    /\ csv_pc = "yield"
    /\ nentries' = nentries + 1
    /\ ret' = NoEntry
    /\ csv_pc' = "loop"
    /\ UNCHANGED <<rows, skip_header, opened, entries, yielded>>
    /\ UNCHANGED <<config, discourseVars, from_date, server, hist, pc, cursor, contents, idx,
                   version, fetching, hc, nhcs, error, log>>

\* The for loop is over.
EndEntries ==
    /\ csv_pc = "loop"
    /\ nentries >= Len(entries)
    /\ csv_pc' = "done"
    /\ UNCHANGED <<rows, skip_header, opened, entries, nentries, ret, yielded>>
    /\ UNCHANGED <<config, discourseVars, from_date, server, hist, pc, cursor, contents, idx,
                   version, fetching, hc, nhcs, error, log>>

NextCSV ==
    \/ GetEntries
    \/ NextEntry
    \/ ResumeEntry
    \/ EndEntries

SpecCSV == InitCSV /\ [][NextCSV]_vars

\* The caller drains the generator of CSV.fetch.
SpecCSVFair == SpecCSV /\ WF_vars(NextCSV)

(***************************************************************************)
(* The Discourse backend.  Discourse.fetch, DiscourseClient.get_posts and  *)
(* DiscourseClient.get_topics_id_list are generators, each resumed by the  *)
(* one that consumes it: there is one action for each HTTP request and one *)
(* for each stretch of a generator between two of its yields or requests.  *)
(***************************************************************************)
\* str_to_datetime(...) >= from_date, with every date a post or a topic
\* carries.
UpdatedSinceAlways(t) == TRUE

UpdatedSince(t) == t >= from_date

\* The topics ids that the pages of topics requested so far list.
TopicsListed ==
    UNION {{log[k].resp.topics[j].id : j \in DOMAIN log[k].resp.topics} :
              k \in {i \in DOMAIN log : log[i].type = "topics"}}

\* The responses the board can give to the request of a page of topics, when
\* it holds at most n pages that list topics of ids: a topic is listed once
\* and the last page has no 'more_topics_url'.
ServerTopics(p, n, ids) ==
    {r \in TopicsResponses(ids \ TopicsListed) :
        r.status = 200 /\ r.more => p + 1 < n}

TopicsEvent(first, p, r) ==
    [type |-> "topics", first |-> first, page |-> p, resp |-> r]

\* The requests of get_topics_id_list: the first one, without a page, and
\* the ones of the while loop, of page 1 on; then the loop over the topics
\* of the page is at its start.
GetTopicsPage(n, ids) ==
    /\ d_pc = "list"
    /\ LET first == data = NoTopicsPage
           p == IF first THEN 0 ELSE page + 1
       IN /\ page' = p
          /\ \E r \in ServerTopics(p, n, ids) :
               /\ log' = Append(log, TopicsEvent(first, p, r))
               /\ IF r.status # 200
                  THEN /\ d_pc' = "raised"
                       /\ error' = HTTPError(r.status)
                       /\ UNCHANGED <<data, topic_i>>
                  ELSE /\ d_pc' = "topics"
                       /\ data' = r
                       /\ topic_i' = 0
                       /\ error' = error
    /\ UNCHANGED <<config, csvVars, from_date, server, hist, pc, cursor,
                   contents, idx, version, fetching, hc, nhcs, has_cache,
                   cache_queue, cache_items, nposts, topic, post_i, rest,
                   loop, raw_post>>

\* The positions after i of the topics of the page at hand that were posted
\* to since from_date.
TopicsSince(i) ==
    {j \in DOMAIN data.topics :
        j > i /\ UpdatedSince(data.topics[j].last_posted_at)}

Min(S) == CHOOSE x \in S : \A y \in S : x <= y

TopicIdEvent(id) == [type |-> "topic_id", id |-> id]

\* get_topics_id_list goes on with the topics of the page at hand: it yields
\* the id of the next one posted to since from_date; without one, it
\* requests the next page when the page has 'more_topics_url', and ends
\* otherwise, and with it get_posts and fetch.
NextTopicStopsAtPage ==
    /\ d_pc = "topics"
    /\ IF TopicsSince(topic_i) # {}
       THEN /\ topic_i' = Min(TopicsSince(topic_i))
            /\ log' = Append(log, TopicIdEvent(data.topics[topic_i'].id))
            /\ d_pc' = "topic"
       ELSE /\ d_pc' = "done"
            /\ UNCHANGED <<topic_i, log>>
    /\ UNCHANGED <<config, csvVars, from_date, server, hist, pc, cursor,
                   contents, idx, version, fetching, hc, nhcs, error,
                   has_cache, cache_queue, cache_items, nposts, page, data,
                   topic, post_i, rest, loop, raw_post>>

NextTopic ==
    /\ d_pc = "topics"
    /\ IF TopicsSince(topic_i) # {}
       THEN /\ topic_i' = Min(TopicsSince(topic_i))
            /\ log' = Append(log, TopicIdEvent(data.topics[topic_i'].id))
            /\ d_pc' = "topic"
       ELSE /\ d_pc' = IF data.more THEN "list" ELSE "done"
            /\ UNCHANGED <<topic_i, log>>
    /\ UNCHANGED <<config, csvVars, from_date, server, hist, pc, cursor,
                   contents, idx, version, fetching, hc, nhcs, error,
                   has_cache, cache_queue, cache_items, nposts, page, data,
                   topic, post_i, rest, loop, raw_post>>

\* The consumer of get_topics_id_list asks for the next topic id.
ResumeTopics ==
    /\ d_pc = "topic"
    /\ d_pc' = "topics"
    /\ UNCHANGED <<config, csvVars, from_date, server, hist, pc, cursor,
                   contents, idx, version, fetching, hc, nhcs, error, log,
                   has_cache, cache_queue, cache_items, nposts, page, data,
                   topic_i, topic, post_i, rest, loop, raw_post>>

\* get_topics_id_list(from_date), consumed on its own.
InitTopics ==
    /\ Harvest(PlainArgs, {FALSE})
    /\ CSVIdle
    /\ has_cache = FALSE
    /\ DiscourseVarsOf("list")

TopicsGetTopicsPage == GetTopicsPage(MaxTopicPages, TopicIds)

NextTopics == TopicsGetTopicsPage \/ NextTopic \/ ResumeTopics

SpecTopics == InitTopics /\ [][NextTopics]_vars

SpecTopicsFair == SpecTopics /\ WF_vars(NextTopics)

(***************************************************************************)
(* The cache queue of the backend: _purge_cache_queue, _push_cache_queue   *)
(* and _flush_cache_queue of the Backend class, which empty the queue, add *)
(* an item to it, and store its items in the cache and empty it when the   *)
(* backend has a cache.                                                    *)
(***************************************************************************)
purge_cache_queue == <<>>

push_cache_queue(queue, item) == Append(queue, item)

flush_cache_items(items, queue) == IF has_cache THEN items \o queue ELSE items

flush_cache_queue(queue) == IF has_cache THEN <<>> ELSE queue

PurgeEvent == [type |-> "purge"]

\* fetch up to the call of get_posts, at the first request for a post: the
\* cache queue is purged.
BeginFetch ==
    /\ d_pc = "start"
    /\ cache_queue' = purge_cache_queue
    /\ nposts' = 0
    /\ log' = Append(log, PurgeEvent)
    /\ d_pc' = "list"
    /\ UNCHANGED <<config, csvVars, from_date, server, hist, pc, cursor,
                   contents, idx, version, fetching, hc, nhcs, error,
                   has_cache, cache_items, page, data, topic_i, topic,
                   post_i, rest, loop, raw_post>>

TopicEvent(id, r) == [type |-> "topic", id |-> id, resp |-> r]

\* get_posts requests the topic whose id get_topics_id_list yielded; then
\* the loop over the posts of the document is at its start.
GetTopic ==
    /\ d_pc = "topic"
    /\ LET id == data.topics[topic_i].id
       IN \E r \in TopicResponses(id) :
            /\ log' = Append(log, TopicEvent(id, r))
            /\ IF r.status # 200
               THEN /\ d_pc' = "raised"
                    /\ error' = HTTPError(r.status)
                    /\ UNCHANGED <<topic, post_i, loop>>
               ELSE /\ d_pc' = "posts"
                    /\ topic' = r
                    /\ post_i' = 0
                    /\ loop' = "posts"
                    /\ error' = error
    /\ UNCHANGED <<config, csvVars, from_date, server, hist, pc, cursor,
                   contents, idx, version, fetching, hc, nhcs, has_cache,
                   cache_queue, cache_items, nposts, page, data, topic_i,
                   rest, raw_post>>

\* The positions in the stream of the posts of data['post_stream']['posts']:
\* the first chunk_size of the stream.
FirstChunk(t) == {k \in DOMAIN t.stream : k <= t.chunk_size}

\* The positions after i of the posts of the document updated since
\* from_date.
PostsSince(i) ==
    {k \in FirstChunk(topic) : k > i /\ UpdatedSince(topic.stream[k])}

\* reversed(posts_stream[chunk_size:]), as positions in the stream
Reversed(t) ==
    [k \in 1 .. Len(t.stream) - t.chunk_size |-> Len(t.stream) + 1 - k]

\* get_posts goes on with the posts of the document of the topic: it yields
\* the next one updated since from_date, with the category of the topic;
\* without one, it goes to the posts of the stream beyond chunk_size when
\* there are some, and to the next topic otherwise.
NextPost ==
    /\ d_pc = "posts"
    /\ IF PostsSince(post_i) # {}
       THEN /\ post_i' = Min(PostsSince(post_i))
            /\ raw_post' = dumps(Post(topic, post_i'))
            /\ d_pc' = "cache"
            /\ UNCHANGED <<rest, loop>>
       ELSE IF topic.chunk_size < Len(topic.stream)
       THEN /\ rest' = Reversed(topic)
            /\ loop' = "stream"
            /\ d_pc' = "post"
            /\ UNCHANGED <<post_i, raw_post>>
       ELSE /\ d_pc' = "topics"
            /\ UNCHANGED <<post_i, raw_post, rest, loop>>
    /\ UNCHANGED <<config, csvVars, from_date, server, hist, pc, cursor,
                   contents, idx, version, fetching, hc, nhcs, error, log,
                   has_cache, cache_queue, cache_items, nposts, page, data,
                   topic_i, topic>>

PostStatuses == {200, 500}

PostEvent(id, k, s) ==
    [type |-> "post", id |-> id, position |-> k, status |-> s]

\* get_posts requests the next post of the reversed stream: it yields the
\* post when it was updated since from_date and leaves the loop otherwise.
GetPost ==
    /\ d_pc = "post"
    /\ LET k == Head(rest)
       IN \E s \in PostStatuses :
            /\ log' = Append(log, PostEvent(topic.id, k, s))
            /\ IF s # 200
               THEN /\ d_pc' = "raised"
                    /\ error' = HTTPError(s)
                    /\ UNCHANGED <<rest, raw_post>>
               ELSE /\ error' = error
                    /\ IF UpdatedSince(topic.stream[k])
                       THEN /\ raw_post' = dumps(Post(topic, k))
                            /\ rest' = Tail(rest)
                            /\ d_pc' = "cache"
                       ELSE /\ rest' = <<>>
                            /\ d_pc' = "topics"
                            /\ UNCHANGED raw_post
    /\ UNCHANGED <<config, csvVars, from_date, server, hist, pc, cursor,
                   contents, idx, version, fetching, hc, nhcs, has_cache,
                   cache_queue, cache_items, nposts, page, data, topic_i,
                   topic, post_i, loop>>

\* The raw post is pushed to the cache queue and the queue is not flushed.
CachePostUnflushed ==
    /\ d_pc = "cache"
    /\ cache_queue' = push_cache_queue(cache_queue, raw_post)
    /\ nposts' = nposts + 1
    /\ d_pc' = "yield"
    /\ UNCHANGED <<config, csvVars, from_date, server, hist, pc, cursor,
                   contents, idx, version, fetching, hc, nhcs, error, log,
                   has_cache, cache_items, page, data, topic_i, topic,
                   post_i, rest, loop, raw_post>>

\* fetch has a raw post from get_posts: it pushes it to the cache queue,
\* flushes the queue and counts the post.
CachePost ==
    /\ d_pc = "cache"
    /\ LET queue == push_cache_queue(cache_queue, raw_post)
       IN /\ cache_items' = flush_cache_items(cache_items, queue)
          /\ cache_queue' = flush_cache_queue(queue)
    /\ nposts' = nposts + 1
    /\ d_pc' = "yield"
    /\ UNCHANGED <<config, csvVars, from_date, server, hist, pc, cursor,
                   contents, idx, version, fetching, hc, nhcs, error, log,
                   has_cache, page, data, topic_i, topic, post_i, rest,
                   loop, raw_post>>

YieldEvent(post) == [type |-> "yield", post |-> post]

\* fetch yields the post.
YieldPost ==
    /\ d_pc = "yield"
    /\ log' = Append(log, YieldEvent(loads(raw_post)))
    /\ d_pc' = "yielded"
    /\ UNCHANGED <<config, csvVars, from_date, server, hist, pc, cursor,
                   contents, idx, version, fetching, hc, nhcs, error,
                   has_cache, cache_queue, cache_items, nposts, page, data,
                   topic_i, topic, post_i, rest, loop, raw_post>>

\* The caller asks for the next post: get_posts is resumed in the loop that
\* yielded the last one.
ResumePost ==
    /\ d_pc = "yielded"
    /\ d_pc' = IF loop = "posts" THEN "posts"
               ELSE IF rest # <<>> THEN "post"
               ELSE "topics"
    /\ UNCHANGED <<config, csvVars, from_date, server, hist, pc, cursor,
                   contents, idx, version, fetching, hc, nhcs, error, log,
                   has_cache, cache_queue, cache_items, nposts, page, data,
                   topic_i, topic, post_i, rest, loop, raw_post>>

\* Discourse(url, cache=cache).fetch(from_date)
InitDiscourse ==
    /\ Harvest(PlainArgs, {FALSE})
    /\ CSVIdle
    /\ has_cache \in BOOLEAN
    /\ DiscourseVarsOf("start")

\* The board lists its topics on one page here; the pages of the list of
\* topics are those of SpecTopics.
DiscourseGetTopicsPage == GetTopicsPage(1, TopicIds)

NextDiscourse ==
    \/ BeginFetch
    \/ DiscourseGetTopicsPage
    \/ NextTopic
    \/ GetTopic
    \/ NextPost
    \/ GetPost
    \/ CachePost
    \/ YieldPost
    \/ ResumePost

SpecDiscourse == InitDiscourse /\ [][NextDiscourse]_vars

(***************************************************************************)
(* Discourse.fetch_from_cache.                                             *)
(***************************************************************************)
\* The raw posts a cache can hold.
CachedPosts ==
    {dumps([topic |-> id, position |-> k, updated_at |-> u,
            category_id |-> <<"category", id>>]) :
        id \in TopicIds, k \in 1 .. 2, u \in Times}

\* self.cache.retrieve(): the items of the cache, in the order they were
\* stored in.
retrieve(items) == items

\* fetch_from_cache goes to its loop with or without a cache.
BeginFromCacheUnchecked ==
    /\ d_pc = "from_cache"
    /\ d_pc' = "retrieve"
    /\ nposts' = 0
    /\ post_i' = 0
    /\ error' = error
    /\ UNCHANGED <<config, csvVars, from_date, server, hist, pc, cursor,
                   contents, idx, version, fetching, hc, nhcs, log, has_cache,
                   cache_queue, cache_items, page, data, topic_i, topic,
                   rest, loop, raw_post>>

\* fetch_from_cache up to its loop, at the first request for a post: it
\* raises CacheError when the backend has no cache.
BeginFromCache ==
    /\ d_pc = "from_cache"
    /\ IF ~ has_cache
       THEN /\ d_pc' = "raised"
            /\ error' = CacheError
            /\ UNCHANGED <<nposts, post_i>>
       ELSE /\ d_pc' = "retrieve"
            /\ nposts' = 0
            /\ post_i' = 0
            /\ error' = error
    /\ UNCHANGED <<config, csvVars, from_date, server, hist, pc, cursor,
                   contents, idx, version, fetching, hc, nhcs, log, has_cache,
                   cache_queue, cache_items, page, data, topic_i, topic,
                   rest, loop, raw_post>>

\* The loop of fetch_from_cache: the next item of the cache is loaded,
\* counted and yielded; after the last one the generator ends.
NextCached ==
    /\ d_pc = "retrieve"
    /\ IF post_i < Len(retrieve(cache_items))
       THEN /\ post_i' = post_i + 1
            /\ raw_post' = retrieve(cache_items)[post_i']
            /\ nposts' = nposts + 1
            /\ log' = Append(log, YieldEvent(loads(raw_post')))
            /\ d_pc' = "retrieved"
       ELSE /\ d_pc' = "done"
            /\ UNCHANGED <<post_i, raw_post, nposts, log>>
    /\ UNCHANGED <<config, csvVars, from_date, server, hist, pc, cursor,
                   contents, idx, version, fetching, hc, nhcs, error,
                   has_cache, cache_queue, cache_items, page, data, topic_i,
                   topic, rest, loop>>

\* The caller asks for the next post of the cache.
ResumeCached ==
    /\ d_pc = "retrieved"
    /\ d_pc' = "retrieve"
    /\ UNCHANGED <<config, csvVars, from_date, server, hist, pc, cursor,
                   contents, idx, version, fetching, hc, nhcs, error, log,
                   has_cache, cache_queue, cache_items, nposts, page, data,
                   topic_i, topic, post_i, rest, loop, raw_post>>

\* Discourse(url, cache=cache).fetch_from_cache(): a backend without a cache
\* has no items.
InitCache ==
    /\ Harvest({NoDate}, {FALSE})
    /\ CSVIdle
    /\ has_cache \in BOOLEAN
    /\ cache_items \in SeqsUpTo(CachedPosts, MaxCached)
    /\ ~ has_cache => cache_items = <<>>
    /\ d_pc = "from_cache"
    /\ cache_queue = <<>>
    /\ nposts = 0
    /\ page = 0
    /\ data = NoTopicsPage
    /\ topic_i = 0
    /\ topic = NoTopic
    /\ post_i = 0
    /\ rest = <<>>
    /\ loop = "posts"
    /\ raw_post = NoPost

NextCache == BeginFromCache \/ NextCached \/ ResumeCached

SpecCache == InitCache /\ [][NextCache]_vars

(***************************************************************************)
(* Properties.  They are stated over the log of the run and do not use     *)
(* the operators of the walk.                                              *)
(***************************************************************************)
Unrecovered == {404, 500}

IsVersion(k) == log[k].type = "version"
IsEmit(k) == log[k].type = "emit"
IsWalk(k) == IsVersion(k) \/ IsEmit(k)

\* The version request k was answered with a well-formed version.
Fetched(k) ==
    IsVersion(k) /\ log[k].resp.status = 200 /\ log[k].resp.hasWhen

\* The version request k failed with 404 or 500.
Failed(k) == IsVersion(k) /\ log[k].resp.status \in Unrecovered

\* The version request k failed with another HTTP error.
Fatal(k) == IsVersion(k) /\ log[k].resp.status \notin ({200} \cup Unrecovered)

\* The version request k was answered with a version flagged latest.
Latest(k) == Fetched(k) /\ log[k].resp.hasLatest /\ log[k].resp.latest

\* The version numbers emitted by the walk of the i-th summary.
EmittedOf(i) ==
    {log[k].number : k \in {j \in DOMAIN log : IsEmit(j) /\ log[j].idx = i}}

\* The version numbers requested by the walk of the i-th summary.
RequestedOf(i) ==
    {log[k].version :
        k \in {j \in DOMAIN log : IsVersion(j) /\ log[j].idx = i}}

\* The walk of the summary of event k has ended without an error and the
\* harvest went on: nothing of that walk follows k, and what follows is the
\* first request of the walk of the next summary, or the end of the harvest.
WalkEndedAt(k) ==
    /\ \A j \in k + 1 .. Len(log) : IsWalk(j) => log[j].idx # log[k].idx
    /\ k < Len(log) =>
          /\ IsVersion(k + 1)
          /\ log[k + 1].idx = log[k].idx + 1
          /\ log[k + 1].version = 1
    /\ k = Len(log) =>
          /\ error = NoError
          /\ \/ pc = "content" /\ idx = log[k].idx
             \/ pc = "walk" /\ idx = log[k].idx + 1 /\ version = 1
             \/ pc = "done" /\ log[k].idx = Len(contents)

\* C1: every emitted historical version has an update time at or after the
\* checkpoint, in every state of every run.
C1_EmittedAtOrAfterCheckpoint ==
    \A k \in DOMAIN log : IsEmit(k) => log[k].when >= from_date

\* A version was emitted in a run that also fetched a version older than
\* the checkpoint.
C1_Witness ==
    /\ from_date > DEFAULT_DATETIME
    /\ \E k \in DOMAIN log : IsEmit(k)
    /\ \E k \in DOMAIN log : Fetched(k) /\ log[k].resp.when < from_date

\* C2: a version fetch that fails with 404 or 500 ends the walk of its
\* content id without an error reaching the caller, and the harvest goes on
\* with the remaining summaries: a harvest that ends has walked every one.
C2_FailureEndsWalkOnly ==
    /\ \A k \in DOMAIN log : Failed(k) => WalkEndedAt(k)
    /\ pc = "done" => \A i \in 1 .. Len(contents) : 1 \in RequestedOf(i)

\* The fetch of version 1 of a content failed, nothing was emitted for it,
\* and a version of a later summary was emitted in a harvest that ended.
C2_Witness ==
    /\ pc = "done"
    /\ \E k \in DOMAIN log :
          /\ Failed(k) /\ log[k].version = 1
          /\ EmittedOf(log[k].idx) = {}
          /\ \E j \in DOMAIN log : j > k /\ IsEmit(j) /\ log[j].idx > log[k].idx

\* C3: when the fetch of version n >= 2 fails with 404 or 500, the walk has
\* emitted exactly the versions 1..n-1 updated at or after the checkpoint and
\* requests no version above n.
C3_FailureKeepsEarlierVersions ==
    \A k \in DOMAIN log :
        Failed(k) /\ log[k].version >= 2 =>
            LET i == log[k].idx
                c == log[k].id
                n == log[k].version
            IN  /\ EmittedOf(i) =
                      {v \in 1 .. n - 1 : hist[c][v].when >= from_date}
                /\ \A v \in RequestedOf(i) : v <= n

\* The fetch of version 2 failed with 500 after version 1 was emitted.
C3_Witness ==
    \E k \in DOMAIN log :
        /\ Failed(k) /\ log[k].version = 2 /\ log[k].resp.status = 500
        /\ EmittedOf(log[k].idx) = {1}

\* A step of the harvest: a version fetch that failed with an HTTP error
\* other than 404 and 500 is the last event and its error is raised; after
\* an error the log does not change; no event is taken back.
C4_FatalStep ==
    /\ \A k \in DOMAIN log :
          Fatal(k) => /\ k = Len(log)
                      /\ pc = "raised"
                      /\ error = HTTPError(log[k].resp.status)
    /\ pc = "raised" => log' = log /\ pc' = "raised"
    /\ \A k \in DOMAIN log : k \in DOMAIN log' /\ log'[k] = log[k]

\* C4: a version fetch that fails with an HTTP error other than 404 and 500
\* raises that error to the caller; after an error nothing is requested and
\* nothing is emitted, and what was emitted stays emitted.
C4_FatalAborts == [][C4_FatalStep]_vars

\* A version fetch failed with 401 after a version was emitted.
C4_Witness ==
    /\ pc = "raised"
    /\ error = HTTPError(401)
    /\ Fatal(Len(log))
    /\ \E k \in DOMAIN log : IsEmit(k)

\* The walk of the i-th summary fetched every version up to one flagged
\* latest.
WalkSucceeded(i) ==
    /\ \A k \in DOMAIN log : IsVersion(k) /\ log[k].idx = i => Fetched(k)
    /\ \E k \in DOMAIN log : Latest(k) /\ log[k].idx = i

\* C5: in a harvest that ended without an error, for every summary whose
\* version fetches all succeeded up to the version flagged latest, the
\* versions emitted are exactly its versions updated at or after the
\* checkpoint.
C5_ExactlyQualifyingVersions ==
    pc = "done" =>
        \A i \in 1 .. Len(contents) :
            WalkSucceeded(i) =>
                EmittedOf(i) =
                    {v \in 1 .. MaxVersions :
                        /\ hist[contents[i].id][v] # Unknown
                        /\ hist[contents[i].id][v].when >= from_date}

\* A harvest ended with a walk that emitted a version and left one out.
C5_Witness ==
    /\ pc = "done"
    /\ \E i \in 1 .. Len(contents) :
          /\ WalkSucceeded(i)
          /\ EmittedOf(i) # {}
          /\ EmittedOf(i) # RequestedOf(i)

\* The version request k was answered with a version older than the
\* checkpoint.
TooOld(k) == Fetched(k) /\ log[k].resp.when < from_date

\* The walk of the summary of event k goes on after k with the request of
\* the next version.
WalkGoesOnAt(k) ==
    /\ k < Len(log) =>
          /\ IsVersion(k + 1)
          /\ log[k + 1].idx = log[k].idx
          /\ log[k + 1].version = log[k].version + 1
    /\ k = Len(log) =>
          /\ pc = "walk" /\ fetching /\ error = NoError
          /\ idx = log[k].idx
          /\ version = log[k].version + 1

\* C6: a fetched version older than the checkpoint is not emitted and does
\* not stop the walk: unless it is flagged latest the next version is
\* requested, and a later version at or after the checkpoint is emitted; if
\* it is flagged latest the walk ends normally.
C6_OldVersionSkippedWalkContinues ==
    \A k \in DOMAIN log :
        /\ TooOld(k) =>
              /\ log[k].version \notin EmittedOf(log[k].idx)
              /\ log[k].resp.hasLatest /\ ~ log[k].resp.latest
                    => WalkGoesOnAt(k)
              /\ Latest(k) => WalkEndedAt(k)
        /\ Fetched(k) /\ ~ TooOld(k) =>
              /\ k < Len(log)
              /\ IsEmit(k + 1)
              /\ log[k + 1].idx = log[k].idx
              /\ log[k + 1].number = log[k].version

\* A version older than the checkpoint was fetched and left out, and a
\* later version of the same walk was emitted.
C6_Witness ==
    \E k \in DOMAIN log :
        /\ TooOld(k)
        /\ \E j \in DOMAIN log :
              /\ j > k /\ IsEmit(j)
              /\ log[j].idx = log[k].idx
              /\ log[j].number > log[k].version

\* C7: the walk of a content id requests the versions 1, 2, 3, ... in this
\* order, each once, and the version numbers it emits strictly increase.
C7_VersionsOneByOne ==
    /\ \A k \in DOMAIN log :
          IsVersion(k) =>
              LET before == {j \in 1 .. k - 1 :
                                IsVersion(j) /\ log[j].idx = log[k].idx}
              IN  log[k].version = Cardinality(before) + 1
    /\ \A k \in DOMAIN log :
          IsEmit(k) =>
              \A j \in 1 .. k - 1 :
                  IsEmit(j) /\ log[j].idx = log[k].idx
                      => log[j].number < log[k].number

\* A walk requested the versions 1, 2 and 3 and emitted two versions.
C7_Witness ==
    \E i \in 1 .. Len(contents) :
        /\ RequestedOf(i) = {1, 2, 3}
        /\ Cardinality(EmittedOf(i)) = 2

\* C8: a walk issues no request after its first response flagged latest,
\* and none after a 404 or 500; it sees at most one version flagged latest.
C8_WalkStopsAtLatestOrFailure ==
    /\ \A k \in DOMAIN log :
          Latest(k) \/ Failed(k) =>
              \A j \in k + 1 .. Len(log) :
                  IsVersion(j) => log[j].idx # log[k].idx
    /\ \A k \in DOMAIN log :
          Latest(k) =>
              \A j \in 1 .. k - 1 :
                  Latest(j) => log[j].idx # log[k].idx

\* The first version of a content was flagged latest and the harvest went
\* on with the next summary.
C8_Witness ==
    \E k \in DOMAIN log :
        /\ Latest(k) /\ log[k].version = 1
        /\ \E j \in DOMAIN log : j > k /\ IsVersion(j)

\* The summaries of the pages p..Len(pages), in order.
RECURSIVE FlattenFrom(_, _)
FlattenFrom(pages, p) ==
    IF p > Len(pages) THEN <<>>
    ELSE pages[p].results \o FlattenFrom(pages, p + 1)

\* The response r links to a next page.
NextLink(r) == r.status = 200 /\ r.hasLinks /\ r.hasNext

\* C9: the summary paginator issues one request per page, follows the next
\* link of every response that has one and stops at the first response that
\* has none; it yields the summaries of the pages in page order and in-page
\* order.  Pages of sizes 2, 2, 1 give 5 summaries with 3 requests.
C9_Pagination ==
    /\ \A k \in DOMAIN log : log[k].type = "page" /\ log[k].page = k
    /\ \A k \in DOMAIN log : k > 1 => NextLink(log[k - 1].resp)
    /\ pc = "summary" /\ log # <<>> => NextLink(log[Len(log)].resp)
    /\ pc = "content" =>
          /\ log # <<>>
          /\ log[Len(log)].resp.status = 200
          /\ ~ NextLink(log[Len(log)].resp)
    /\ contents = FlattenFrom(server, 1)
    /\ ( /\ pc = "content"
         /\ Len(server) = 3
         /\ Len(server[1].results) = 2
         /\ Len(server[2].results) = 2
         /\ Len(server[3].results) = 1 )
          => Len(contents) = 5 /\ Len(log) = 3

\* The paginator went through three pages of 2, 2 and 1 summaries.
C9_Witness ==
    /\ pc = "content"
    /\ Len(log) = 3
    /\ Len(log[1].resp.results) = 2
    /\ Len(log[2].resp.results) = 2
    /\ Len(log[3].resp.results) = 1
    /\ Len(contents) = 5

\* The version request k is the last one of its walk: the walk is drained
\* once the item of k, if any, is emitted.
Drained(k) == Failed(k) \/ Latest(k)

\* C10: the harvest is a flat-map: the events of the walk of a summary are
\* those of its content, the walk of a summary is drained before the walk
\* of the next summary begins, and the items of a summary precede the items
\* of every later summary.
C10_FlatMap ==
    /\ \A k \in DOMAIN log :
          IsWalk(k) => /\ log[k].idx \in 1 .. Len(contents)
                       /\ log[k].id = contents[log[k].idx].id
    /\ \A k \in DOMAIN log :
          IsWalk(k) =>
              \A j \in 1 .. k - 1 : IsWalk(j) => log[j].idx <= log[k].idx
    /\ \A k \in DOMAIN log :
          IsVersion(k) /\ log[k].version = 1 /\ log[k].idx > 1 =>
              \E j \in 1 .. k - 1 :
                  /\ IsVersion(j)
                  /\ log[j].idx = log[k].idx - 1
                  /\ Drained(j)
                  /\ \A m \in j + 1 .. k - 1 :
                        IsEmit(m) /\ m = j + 1 /\ log[m].idx = log[j].idx

\* Two summaries were walked and each one emitted two versions.
C10_Witness ==
    /\ Len(contents) = 2
    /\ Cardinality(EmittedOf(1)) = 2
    /\ Cardinality(EmittedOf(2)) = 2

IsPage(k) == log[k].type = "page"

IdentitiesIn(lo, hi) ==
    {metadata_id(log[k]) : k \in {j \in lo .. hi : IsEmit(j)}}

SummaryOf(k) == contents[log[k].idx]

C17_Termination ==
    /\ (pc = "walk") ~> (pc \in {"content", "raised"})
    /\ <>(pc \in {"done", "raised"})

\* The harvest ended after two pages of summaries and the walks of two
\* contents, one of them through every version the server holds.
C17_Witness ==
    /\ pc = "done"
    /\ Len(server) = 2
    /\ Len(contents) = 2
    /\ \E i \in 1 .. 2 : Cardinality(RequestedOf(i)) = 3

\* The versions that a walk of content c beginning at version v requests,
\* as the answers of the server to the requests of c determine them: the
\* walk goes on after a well-formed version that is not the latest one.
RECURSIVE WalkRequests(_, _)
WalkRequests(c, v) ==
    IF v > MaxVersions THEN {v}
    ELSE IF hist[c][v].status = 0 THEN {}
    ELSE IF /\ hist[c][v].status = 200
            /\ hist[c][v].hasWhen
            /\ hist[c][v].hasLatest
            /\ ~ hist[c][v].latest
    THEN {v} \cup WalkRequests(c, v + 1)
    ELSE {v}

\* The versions among vs that the server holds for c, well-formed and
\* updated at or after the checkpoint.
Recent(c, vs) ==
    {v \in vs \cap 1 .. MaxVersions :
        /\ hist[c][v].status = 200
        /\ hist[c][v].hasWhen
        /\ hist[c][v].when >= from_date}

\* The walk of the i-th summary has come to its end without raising.
WalkOver(i) == i < idx \/ (i = idx /\ pc \in {"content", "done"})

\* C18: the walks of the contents are independent: the walk of a content
\* begins at version 1 with its own counter and flag, so the versions it
\* requests and the versions it emits are those that the history of its own
\* content and the checkpoint determine, wherever the summary stands in the
\* list and however the walks before it ended.
C18_WalksIndependent ==
    /\ \A i \in 1 .. Len(contents) :
          WalkOver(i) =>
              /\ RequestedOf(i) = WalkRequests(contents[i].id, 1)
              /\ EmittedOf(i) =
                    Recent(contents[i].id, WalkRequests(contents[i].id, 1))
    /\ pc = "walk" /\ RequestedOf(idx) = {} => version = 1 /\ fetching

\* The walk of the first summary ended at the failure of its request of
\* version 2, and the walk of the second summary requested versions 1 and
\* 2 and emitted both.
C18_Witness ==
    /\ Len(contents) = 2
    /\ WalkOver(2)
    /\ \E k \in DOMAIN log :
          Failed(k) /\ log[k].idx = 1 /\ log[k].version = 2
    /\ EmittedOf(2) = {1, 2}

\* The version request k was answered with a document that lacks
\* 'version.when' or 'history.latest'.
Malformed(k) ==
    /\ IsVersion(k)
    /\ log[k].resp.status = 200
    /\ ~ log[k].resp.hasWhen \/ ~ log[k].resp.hasLatest

\* C19: a version response that lacks 'version.when' or 'history.latest'
\* is fatal: the error reaches the caller and ends the harvest, once the
\* caller has taken the item if the version was emitted before 'latest'
\* was looked at; no request follows, and the walk is not ended quietly as
\* it is at an unreachable version.
C19_MalformedFatal ==
    \A k \in DOMAIN log :
        Malformed(k) =>
            /\ \A j \in k + 1 .. Len(log) :
                  /\ j = k + 1
                  /\ IsEmit(j)
                  /\ log[j].idx = log[k].idx
                  /\ log[j].number = log[k].version
                  /\ log[k].resp.hasWhen
            /\ \/ pc = "raised" /\ error.kind = "KeyError"
               \/ pc = "yield" /\ k + 1 = Len(log) /\ idx = log[k].idx

\* After the walk of a first content, the harvest raised at a version of
\* the second content without 'history.latest', which it had emitted.
C19_Witness ==
    /\ pc = "raised"
    /\ error.kind = "KeyError"
    /\ idx = 2
    /\ EmittedOf(1) # {}
    /\ \E k \in DOMAIN log :
          /\ Malformed(k)
          /\ log[k].idx = 2
          /\ k < Len(log)

\* The date of the row is written in one of the configured formats.
DateParses(row) ==
    /\ Len(row) >= 2
    /\ \E f \in DOMAIN date_formats : ~ row[2].parse[date_formats[f]].isNone

\* The rows of the file after its header row, if it has one.
DataRows == IF skip_header /\ rows # <<>> THEN Tail(rows) ELSE rows

\* C20: a fetch of the CSV backend that comes to its end has opened the
\* file once and has yielded, in the order of the file, one entry for
\* every data row whose date is written in a configured format, the entry
\* having for each column of the header the value of the row at the
\* position of the column.
C20_OneEntryPerDatedRow ==
    csv_pc = "done" =>
        /\ opened = 1
        /\ Len(yielded) = Len(SelectSeq(DataRows, DateParses))
        /\ \A k \in DOMAIN yielded :
              /\ yielded[k].cols["name"] = SelectSeq(DataRows, DateParses)[k][1]
              /\ yielded[k].cols["date"] = SelectSeq(DataRows, DateParses)[k][2]

\* The number of rows that get_entries leaves out at the head of the file.
Skipped == IF skip_header /\ rows # <<>> THEN 1 ELSE 0

\* C21: get_entries returns the rows of the file in the order of the file:
\* all of them when skip_header is false, all but the first one when
\* skip_header is true.
C21_EntriesAreRows ==
    csv_pc # "start" =>
        /\ Len(entries) = Len(rows) - Skipped
        /\ \A k \in DOMAIN entries : entries[k] = rows[k + Skipped]
        /\ ~ skip_header => entries = rows

\* With skip_header, a file of two different rows gave the second row as
\* its only entry.
C21_Witness ==
    /\ csv_pc = "loop"
    /\ skip_header
    /\ Len(rows) = 2
    /\ rows[1] # rows[2]
    /\ entries = <<rows[2]>>

\* C22: the fetch of a file without rows yields no entry and comes to its
\* normal end, with skip_header or without it.
C22_EmptyFile ==
    /\ [](rows = <<>> =>
            /\ yielded = <<>>
            /\ csv_pc \in {"start", "loop", "done"})
    /\ rows = <<>> => <>(csv_pc = "done")

\* The fetch of a file without rows ended, with skip_header, after opening
\* the file.
C22_Witness ==
    /\ rows = <<>>
    /\ skip_header
    /\ opened = 1
    /\ csv_pc = "done"
    /\ yielded = <<>>

\* The positions of the configured formats that read the text as a date.
ReadingFormats(text) ==
    {f \in DOMAIN date_formats : ~ text.parse[date_formats[f]].isNone}

\* The timestamp of the text in the first configured format that reads it.
FirstReading(text) ==
    text.parse[date_formats[
        CHOOSE f \in ReadingFormats(text) :
            \A g \in ReadingFormats(text) : f <= g]].value

\* The date formats are tried in the order of the configuration and the
\* first one that parses the date gives the timestamp of the entry; a row
\* is yielded exactly when a configured format parses its date, and a row
\* whose date no format parses is passed over without ending the fetch.
C27_YieldedIffDateParses ==
    /\ \A k \in DOMAIN yielded :
          /\ yielded[k].hasTimestamp
          /\ ReadingFormats(yielded[k].cols["date"]) # {}
          /\ yielded[k].timestamp = FirstReading(yielded[k].cols["date"])
    /\ csv_pc = "done" =>
          /\ Len(yielded) = Len(SelectSeq(DataRows, DateParses))
          /\ \A k \in DOMAIN yielded :
                yielded[k].cols["date"] = SelectSeq(DataRows, DateParses)[k][2]
    /\ csv_pc = "raised" =>
          /\ nentries < Len(entries)
          /\ Len(entries[nentries + 1]) < 2

\* C28: only the fetch of a version is recovered from: a request of a
\* summary page that fails, be it with 404 or 500, raises its HTTP error to
\* the caller and ends the harvest, before any version was requested.
C28_PageErrorFatal ==
    \A k \in DOMAIN log :
        IsPage(k) /\ log[k].resp.status # 200 =>
            /\ k = Len(log)
            /\ pc = "raised"
            /\ error.kind = "HTTPError"
            /\ error.status = log[k].resp.status
            /\ \A j \in 1 .. k - 1 : IsPage(j) /\ log[j].resp.status = 200

\* The first summary page listed a content and the second one failed with
\* 500: the harvest raised and walked nothing.
C28_Witness ==
    /\ Len(log) = 2
    /\ log[1].resp.results # <<>>
    /\ log[2].resp.status = 500
    /\ pc = "raised"
    /\ idx = 0

\* C30: the walk decides on the emission of a version before it reads the
\* flag of the latest version: a version that passes the filter of the
\* checkpoint and has no 'history.latest' is emitted, the walk is suspended
\* at its yield, and the error is raised when the caller asks for the next
\* item; nothing is requested after it.
C30_EmitBeforeLatest ==
    \A k \in DOMAIN log :
        /\ IsVersion(k)
        /\ log[k].resp.status = 200
        /\ log[k].resp.hasWhen
        /\ ~ log[k].resp.hasLatest
        /\ log[k].resp.when >= from_date
        => /\ Len(log) = k + 1
           /\ IsEmit(k + 1)
           /\ log[k + 1].idx = log[k].idx
           /\ log[k + 1].number = log[k].version
           /\ \/ pc = "yield" /\ error.kind = "none"
              \/ pc = "raised" /\ error.kind = "KeyError"
                               /\ nhcs = Cardinality({j \in DOMAIN log : IsEmit(j)})

\* The harvest raised after the caller took the item of version 2 of a
\* content, which has no 'history.latest'.
C30_Witness ==
    /\ pc = "raised"
    /\ error.kind = "KeyError"
    /\ Len(log) >= 2
    /\ IsEmit(Len(log))
    /\ log[Len(log)].number = 2
    /\ ~ log[Len(log) - 1].resp.hasLatest

(***************************************************************************)
(* The Discourse backend.                                                  *)
(***************************************************************************)
IsTopics(e) == e.type = "topics"
IsTopicId(e) == e.type = "topic_id"

TopicsRequests == SelectSeq(log, IsTopics)

TopicIdsYielded ==
    LET q == SelectSeq(log, IsTopicId) IN [k \in DOMAIN q |-> q[k].id]

PostedSince(t) == t.last_posted_at >= from_date

IdsSince(ts) ==
    LET q == SelectSeq(ts, PostedSince) IN [k \in DOMAIN q |-> q[k].id]

RECURSIVE AllIdsSince(_)
AllIdsSince(evs) ==
    IF evs = <<>> THEN <<>>
    ELSE IdsSince(Head(evs).resp.topics) \o AllIdsSince(Tail(evs))

IsPrefix(a, b) == Len(a) <= Len(b) /\ SubSeq(b, 1, Len(a)) = a

C26_Paging ==
    LET reqs == TopicsRequests
        ids == TopicIdsYielded
    IN /\ \A k \in DOMAIN reqs :
            /\ reqs[k].first = (k = 1)
            /\ reqs[k].page = k - 1
            /\ k < Len(reqs) => reqs[k].resp.status = 200 /\ reqs[k].resp.more
       /\ IsPrefix(ids, AllIdsSince(reqs))
       /\ d_pc = "list" => ids = AllIdsSince(reqs)
       /\ d_pc = "done" =>
            /\ reqs # <<>>
            /\ ~ reqs[Len(reqs)].resp.more
            /\ ids = AllIdsSince(reqs)

IsYield(e) == e.type = "yield"
IsTopic(e) == e.type = "topic"

\* The topic of the list of topics that has the id of the event at i of the
\* log.
ListedBefore(i) ==
    {t \in UNION {{log[j].resp.topics[k] : k \in DOMAIN log[j].resp.topics} :
                     j \in {n \in 1 .. i - 1 : IsTopics(log[n])}} :
        t.id = log[i].id}

\* C23: every post that the harvest of a Discourse board yields, out of
\* get_posts and out of Discourse.fetch, has an 'updated_at' at or after
\* from_date, and every topic id that get_topics_id_list yields is the id
\* of a listed topic whose 'last_posted_at' is at or after from_date.
C23_YieldedSince ==
    /\ \A i \in DOMAIN log :
            IsYield(log[i]) => log[i].post.updated_at >= from_date
    /\ d_pc \in {"cache", "yield", "yielded"} =>
            raw_post.json.updated_at >= from_date
    /\ \A i \in DOMAIN log :
            IsTopicId(log[i]) =>
                /\ ListedBefore(i) # {}
                /\ \A t \in ListedBefore(i) : t.last_posted_at >= from_date

C23_Witness ==
    /\ from_date = DEFAULT_DATETIME + 1
    /\ \E i \in DOMAIN log :
            /\ IsTopics(log[i])
            /\ \E k \in DOMAIN log[i].resp.topics :
                    log[i].resp.topics[k].last_posted_at < from_date
    /\ \E i \in DOMAIN log :
            /\ IsTopic(log[i])
            /\ \E k \in DOMAIN log[i].resp.stream :
                    /\ k <= log[i].resp.chunk_size
                    /\ log[i].resp.stream[k] < from_date
    /\ \E i \in DOMAIN log :
            IsYield(log[i]) /\ log[i].post.position <= topic.chunk_size
    /\ \E i \in DOMAIN log :
            IsYield(log[i]) /\ log[i].post.position > topic.chunk_size

YieldedOf(id, k) ==
    \E i \in DOMAIN log :
        /\ IsYield(log[i])
        /\ log[i].post.topic = id
        /\ log[i].post.position = k

\* C24: get_posts retrieves all the posts updated since from_date: once the
\* harvest has come to its end, for every topic that was requested every
\* post of its stream, in the first chunk_size posts or beyond them, with
\* an 'updated_at' at or after from_date has been yielded.
C24_AllPostsSince ==
    d_pc = "done" =>
        \A i \in DOMAIN log :
            IsTopic(log[i]) =>
                \A k \in DOMAIN log[i].resp.stream :
                    log[i].resp.stream[k] >= from_date
                        => YieldedOf(log[i].id, k)

IsPurge(e) == e.type = "purge"

PostsYielded ==
    LET q == SelectSeq(log, IsYield) IN [k \in DOMAIN q |-> q[k].post]

PostsCached == [k \in DOMAIN cache_items |-> cache_items[k].json]

C25_NoCacheRaises ==
    ~ has_cache =>
        /\ d_pc \in {"from_cache", "raised"}
        /\ d_pc = "raised" => error = CacheError
        /\ \A i \in DOMAIN log : ~ IsYield(log[i])
        /\ nposts = 0

C25_Witness ==
    /\ ~ has_cache
    /\ d_pc = "raised"
    /\ error = CacheError
    /\ PostsYielded = <<>>
====
